---------------------------- MODULE Spec2Model ----------------------------
(***************************************************************************)
(* The skaffold event server (pkg/skaffold/event/server.go): the gRPC      *)
(* handlers Handle, EventLog and GetState over the package singleton `ev`. *)
(*                                                                         *)
(* Producers are goroutines running Handle; subscribers are goroutines     *)
(* running EventLog.  server.go takes no lock of its own: Handle writes    *)
(* ev.eventHandler.state directly and EventLog ranges over ev.eventLog     *)
(* directly.  The two methods of `ev` that server.go calls, logEvent and   *)
(* RegisterListener, live in event.go; they are modelled from the design   *)
(* document (EventLogStore.Append / Subscribe, sections 4.2 and 5).        *)
(*                                                                         *)
(* The unsynchronised accesses of server.go race with each other.  Each    *)
(* is one step of the model, so a racing read sees the value before or     *)
(* after the write it races with, in either order.                         *)
(***************************************************************************)
EXTENDS Integers, Sequences, FiniteSets, TLC

(***************************************************************************)
(* Bounds of the model.                                                    *)
(***************************************************************************)
\* Handle calls per behaviour when producers run concurrently.
MaxEvents == 2
\* Handle calls per behaviour when the calls are sequential.
MaxSeqEvents == 3
\* Handle calls per behaviour when the event is any of AllEvents.
MaxWideEvents == 1
\* Longest string over Chars given to sanitizeTag in full; longer inputs are
\* such a string followed by padding.
MaxRefLen == 3
\* git_commit.go line 110: the longest docker tag.
MaxTagLen == 128
\* Calls of newStatusServer per behaviour.
MaxStarts == 2
\* Clients that connect to one status server.
MaxClients == 1

Producers == {"p1", "p2"}
Subscribers == {"s1", "s2"}

(***************************************************************************)
(* Event kinds and statuses compared in Handle.                            *)
(***************************************************************************)
Build == "Build"
Deploy == "Deploy"
Port == "Port"
InProgress == "InProgress"
Complete == "Complete"
Failed == "Failed"

\* A kind that is none of Build, Deploy, Port and a status that is none of
\* InProgress, Complete, Failed.
Unknown == "Unknown"
NotStarted == "NotStarted"

Kinds == {Build, Deploy, Port, Unknown}
Statuses == {NotStarted, InProgress, Complete, Failed}
Artifacts == {"a1", "a2"}
PortInfos == {"8080:80", "9090:90"}
Errs == {"", "boom"}

\* proto.Event: every field is present on every event, whatever its kind.
AllEvents == [EventType : Kinds, Status : Statuses, Artifact : Artifacts,
              PortInfo : PortInfos, Err : Errs]

Ev(k, st, a, pi, er) ==
    [EventType |-> k, Status |-> st, Artifact |-> a, PortInfo |-> pi, Err |-> er]

\* The events producers submit in the concurrent specifications.
ConcEvents == { Ev(Build, InProgress, "a1", "8080:80", ""),
                Ev(Build, Complete, "a1", "8080:80", ""),
                Ev(Port, NotStarted, "a1", "8080:80", ""),
                Ev(Port, NotStarted, "a1", "9090:90", "") }

\* The event submitted in the specification with fairness: the fan-out and
\* the EventLog loop read no field of an entry, and the entries of two calls
\* differ by their Timestamp.
LiveEvents == { Ev(Build, InProgress, "a1", "8080:80", "") }

\* The events submitted in the sequential specification.
SeqEvents == { Ev(Build, InProgress, "a1", "8080:80", ""),
               Ev(Build, Complete, "a1", "8080:80", ""),
               Ev(Build, Failed, "a1", "9090:90", "boom"),
               Ev(Build, Complete, "a2", "8080:80", ""),
               Ev(Build, NotStarted, "a2", "9090:90", "boom"),
               Ev(Deploy, InProgress, "a1", "8080:80", ""),
               Ev(Deploy, Complete, "a2", "9090:90", ""),
               Ev(Deploy, NotStarted, "a1", "8080:80", "boom"),
               Ev(Port, NotStarted, "a1", "8080:80", ""),
               Ev(Port, Complete, "a2", "9090:90", ""),
               Ev(Unknown, Failed, "a2", "9090:90", "boom") }

\* Strings of the tagger are sequences of one-character strings.
LowerCase == {"a", "b", "c", "d", "e", "f", "g", "h", "i", "j", "k", "l", "m",
              "n", "o", "p", "q", "r", "s", "t", "u", "v", "w", "x", "y", "z"}
UpperCase == {"A", "B", "C", "D", "E", "F", "G", "H", "I", "J", "K", "L", "M",
              "N", "O", "P", "Q", "R", "S", "T", "U", "V", "W", "X", "Y", "Z"}
Digits == {"0", "1", "2", "3", "4", "5", "6", "7", "8", "9"}

\* The characters input strings are built from: a letter of each case, a
\* digit, the three punctuation marks docker allows and two it does not.
Chars == {"a", "Z", "7", "-", ".", "_", "/", "+"}

Pad(n) == [i \in 1..n |-> "a"]

ShortStrings == UNION { [1..k -> Chars] : k \in 0..MaxRefLen }

\* Inputs of MaxTagLen - 1, MaxTagLen and MaxTagLen + 1 characters.
LongStrings ==
    { h \o Pad(n - Len(h)) : h \in ShortStrings, n \in (MaxTagLen - 1)..(MaxTagLen + 1) }

Strings == ShortStrings \cup LongStrings

\* What git prints for a ref (a tag name, a describe string, a hash): no
\* component begins with '.', no leading or trailing '/', no "..", no "//",
\* no trailing '.', and a tag name does not begin with '-'.
IsGitRef(s) ==
    /\ s # <<>>
    /\ s[1] \notin {"-", ".", "/"}
    /\ s[Len(s)] \notin {".", "/"}
    /\ \A i \in 1..(Len(s) - 1) :
          /\ ~(s[i] = "." /\ s[i + 1] = ".")
          /\ ~(s[i] = "/" /\ s[i + 1] \in {"/", "."})

\* The short refs, and one longer than a docker tag.
GitRefs == { s \in ShortStrings : IsGitRef(s) } \cup { Pad(MaxTagLen + 1) }

Starts == 1..MaxStarts
Ports == {"", ":50051", ":50052"}
BindErrors == {"address already in use", "permission denied"}
NoServer == [pc |-> "idle", port |-> "", listened |-> FALSE, lis |-> "none",
             s |-> "none", serve |-> "none", clients |-> 0, stop |-> "idle",
             ret |-> [stop |-> "none", err |-> "none"]]

ImageName == <<"i", "m", "g">>
Prefixes == { <<>>, <<"v", "-">> }
NotCalled == <<"not called">>
NoName == [value |-> <<>>, err |-> "none"]

NoEntry == [Timestamp |-> 0, Type |-> "", Entry |-> "", Error |-> ""]
NoLoad == [event |-> Ev("", "", "", "", ""), ports |-> <<>>]
NoResult == [value |-> "none", err |-> "none"]
EmptyMap == [a \in {} |-> ""]

VARIABLES
    state,      \* ev.state / ev.eventHandler.state: the proto.State singleton
    eventLog,   \* ev.eventLog: the slice of proto.LogEntry
    listeners,  \* ev.listeners: the registered channels, in registration order
    mu,         \* the lock of ev: the producer holding it, or "free"
    clock,      \* the wall clock read by ptypes.TimestampNow
    ppc,        \* producer -> its position in Handle
    pentry,     \* producer -> the proto.LogEntry it passes to logEvent
    pidx,       \* producer -> index of the listener logEvent delivers to next
    pc,         \* subscriber -> its position in EventLog
    snap,       \* subscriber -> the slice value `range ev.eventLog` iterates
    ri,         \* subscriber -> index of the next history entry to send
    cur,        \* subscriber -> the local `entry` received from its channel
    conn,       \* subscriber -> its gRPC stream: "open", "broken", "stalled"
    stream,     \* subscriber -> the entries stream.Send has delivered
    pload,      \* producer -> the event and the ForwardedPorts slice it read
                \* on line 84, between that read and the store of the append
    hret,       \* the result of the last Handle call that returned
    got,        \* what GetState returned to its caller: "nil" before the call
    gotState,   \* history: the value of the state when GetState returned
    handled,    \* history: the events passed to Handle, in the order of their
                \* state writes (the call order when the calls are sequential)
    regAt,      \* history: subscriber -> Len(eventLog) when it registered, -1 before
    failedAt,   \* history: subscriber -> Handle calls begun when its EventLog
                \* returned the error of a Send, -1 before
    tpc,        \* position of the tagger's caller
    tag,        \* the argument of a direct call of sanitizeTag
    sanitized,  \* the result of that call
    prefix,     \* c.prefix of the GitCommit tagger
    ref,        \* the local `ref` of GenerateFullyQualifiedImageName
    changes,    \* the local `changes` of GenerateFullyQualifiedImageName
    name,       \* the result of GenerateFullyQualifiedImageName
    srv         \* call of newStatusServer -> its position (pc), its port, whether
                \* it called net.Listen, the listener l (lis), the grpc server
                \* s, the goroutine running s.Serve (serve), the clients that
                \* connected, the position of the returned stop function, and
                \* the values returned (ret)

readVars == <<got, gotState>>

\* The variables no step of Handle or EventLog writes.
tagVars == <<tpc, tag, sanitized, prefix, ref, changes, name>>

restVars == <<readVars, tagVars, srv>>

vars == <<state, eventLog, listeners, mu, clock, ppc, pentry, pidx, pload, hret,
          pc, snap, ri, cur, conn, stream, handled, regAt, failedAt, restVars>>

prodVars == <<ppc, pentry, pidx, pload>>
subVars == <<pc, snap, ri, cur, stream>>

(***************************************************************************)
(* Helpers.                                                                *)
(***************************************************************************)
Range(s) == { s[i] : i \in 1..Len(s) }

IsPrefix(s, t) == Len(s) <= Len(t) /\ \A i \in 1..Len(s) : s[i] = t[i]

RemoveAt(s, i) == [j \in 1..(Len(s) - 1) |-> IF j < i THEN s[j] ELSE s[j + 1]]

\* m[k] = v of a Go map: the key is created when absent.
MapSet(m, k, v) == [a \in DOMAIN m \cup {k} |-> IF a = k THEN v ELSE m[a]]

(***************************************************************************)
(* The state after construction: empty state, empty log, no listener.      *)
(***************************************************************************)
InitState ==
    [BuildState |-> [Artifacts |-> EmptyMap],
     DeployState |-> [Status |-> NotStarted],
     PortState |-> [ForwardedPorts |-> <<>>]]

Init ==
    /\ state = InitState
    /\ eventLog = <<>>
    /\ listeners = <<>>
    /\ mu = "free"
    /\ clock = 0
    /\ ppc = [p \in Producers |-> "idle"]
    /\ pentry = [p \in Producers |-> NoEntry]
    /\ pidx = [p \in Producers |-> 0]
    /\ pload = [p \in Producers |-> NoLoad]
    /\ hret = NoResult
    /\ got = "nil"
    /\ gotState = InitState
    /\ pc = [s \in Subscribers |-> "idle"]
    /\ snap = [s \in Subscribers |-> <<>>]
    /\ ri = [s \in Subscribers |-> 0]
    /\ cur = [s \in Subscribers |-> NoEntry]
    /\ conn = [s \in Subscribers |-> "open"]
    /\ stream = [s \in Subscribers |-> <<>>]
    /\ handled = <<>>
    /\ regAt = [s \in Subscribers |-> -1]
    /\ failedAt = [s \in Subscribers |-> -1]
    /\ tpc = "idle"
    /\ tag = NotCalled
    /\ sanitized = NotCalled
    /\ prefix = <<>>
    /\ ref = <<>>
    /\ changes = <<>>
    /\ name = NoName
    /\ srv = [c \in Starts |-> NoServer]

(***************************************************************************)
(* Handle, lines 57-99.                                                    *)
(***************************************************************************)
\* A Handle that keeps the status an artifact already has (a map written only
\* when the key is absent) and forwards a port only once.
ApplyEventKeepFirst(st, e) ==
    LET afterBuild ==
            IF e.EventType = Build /\ e.Artifact \notin DOMAIN st.BuildState.Artifacts
              THEN [st EXCEPT !.BuildState.Artifacts = MapSet(@, e.Artifact, e.Status)]
              ELSE st
        afterDeploy ==
            IF e.EventType = Deploy
              THEN [afterBuild EXCEPT !.DeployState.Status = e.Status]
              ELSE afterBuild
    IN  IF e.EventType = Port /\ e.PortInfo \notin Range(st.PortState.ForwardedPorts)
          THEN [afterDeploy EXCEPT !.PortState.ForwardedPorts = Append(@, e.PortInfo)]
          ELSE afterDeploy

\* A Handle whose Build block also starts a new deployment round: it sets the
\* deploy status back to NotStarted.
ApplyEventBuildResetsDeploy(st, e) ==
    LET afterBuild ==
            IF e.EventType = Build
              THEN [st EXCEPT !.BuildState.Artifacts = MapSet(@, e.Artifact, e.Status),
                              !.DeployState.Status = NotStarted]
              ELSE st
        afterDeploy ==
            IF e.EventType = Deploy
              THEN [afterBuild EXCEPT !.DeployState.Status = e.Status]
              ELSE afterBuild
    IN  IF e.EventType = Port
          THEN [afterDeploy EXCEPT !.PortState.ForwardedPorts = Append(@, e.PortInfo)]
          ELSE afterDeploy

\* A Handle whose third block is an `else`: every event that is neither Build
\* nor Deploy is taken for a Port event.
ApplyEventElsePort(st, e) ==
    IF e.EventType = Build
      THEN [st EXCEPT !.BuildState.Artifacts = MapSet(@, e.Artifact, e.Status)]
    ELSE IF e.EventType = Deploy
      THEN [st EXCEPT !.DeployState.Status = e.Status]
    ELSE [st EXCEPT !.PortState.ForwardedPorts = Append(@, e.PortInfo)]

\* Lines 59-86: the state after the three `if event.EventType == ...` blocks,
\* each of which writes one field of the state.
ApplyEvent(st, e) ==
    LET afterBuild ==
            IF e.EventType = Build
              THEN [st EXCEPT !.BuildState.Artifacts = MapSet(@, e.Artifact, e.Status)]
              ELSE st
        afterDeploy ==
            IF e.EventType = Deploy
              THEN [afterBuild EXCEPT !.DeployState.Status = e.Status]
              ELSE afterBuild
    IN  IF e.EventType = Port
          THEN [afterDeploy EXCEPT !.PortState.ForwardedPorts = Append(@, e.PortInfo)]
          ELSE afterDeploy

\* A Handle that also derives a message for Port events, from the payload.
EntryMessageWithPort(e) ==
    IF e.EventType = Build THEN
        CASE e.Status = InProgress -> "Build started for artifact " \o e.Artifact
          [] e.Status = Complete   -> "Build completed for artifact " \o e.Artifact
          [] e.Status = Failed     -> "Build failed for artifact " \o e.Artifact
          [] OTHER                 -> ""
    ELSE IF e.EventType = Deploy THEN
        CASE e.Status = InProgress -> "Deploy started"
          [] e.Status = Complete   -> "Deploy complete"
          [] e.Status = Failed     -> "Deploy failed"
          [] OTHER                 -> ""
    ELSE IF e.EventType = Port THEN "Port forwarded " \o e.PortInfo
    ELSE ""

\* Lines 58-86: the local `entry` string after the three blocks; it starts
\* as "" and a `default:` case leaves it alone.
EntryMessage(e) ==
    LET afterBuild ==
            IF e.EventType = Build THEN
                CASE e.Status = InProgress -> "Build started for artifact " \o e.Artifact
                  [] e.Status = Complete   -> "Build completed for artifact " \o e.Artifact
                  [] e.Status = Failed     -> "Build failed for artifact " \o e.Artifact
                  [] OTHER                 -> ""
            ELSE ""
    IN  IF e.EventType = Deploy THEN
            CASE e.Status = InProgress -> "Deploy started"
              [] e.Status = Complete   -> "Deploy complete"
              [] e.Status = Failed     -> "Deploy failed"
              [] OTHER                 -> afterBuild
        ELSE afterBuild

\* A Handle that logs the error as a string it builds itself (the code
\* commented out on lines 88-91) and leaves it empty.
MakeEntryNoError(e, now) ==
    [Timestamp |-> now, Type |-> e.EventType, Entry |-> EntryMessage(e), Error |-> ""]

\* Lines 92-97: the proto.LogEntry literal passed to ev.logEvent.
MakeEntry(e, now) ==
    [Timestamp |-> now, Type |-> e.EventType, Entry |-> EntryMessage(e), Error |-> e.Err]

\* Lines 57-97 for an event that is no Port event, up to the call of
\* ev.logEvent: the state is written with no lock held (one store: line 60
\* or line 72, or none), the timestamp is read and the entry is built.
HandleApply(p, e) ==
    /\ ppc[p] = "idle"
    /\ e.EventType # Port
    /\ state' = ApplyEvent(state, e)
    /\ clock' = clock + 1
    /\ pentry' = [pentry EXCEPT ![p] = MakeEntry(e, clock + 1)]
    /\ ppc' = [ppc EXCEPT ![p] = "logEvent"]
    /\ handled' = Append(handled, e)
    /\ UNCHANGED <<eventLog, listeners, mu, pidx, pload, subVars, conn, regAt, failedAt>>
    /\ UNCHANGED <<hret, restVars>>

\* Line 84 for a Port event, first half: `append(ForwardedPorts, ...)` reads
\* the slice.  No lock is held, so another Handle call can run between this
\* read and the store of the result.
HandleLoad(p, e) ==
    /\ ppc[p] = "idle"
    /\ e.EventType = Port
    /\ pload' = [pload EXCEPT ![p] =
                    [event |-> e, ports |-> state.PortState.ForwardedPorts]]
    /\ ppc' = [ppc EXCEPT ![p] = "append"]
    /\ UNCHANGED <<state, eventLog, listeners, mu, clock, pentry, pidx,
                   subVars, conn, handled, regAt, failedAt>>
    /\ UNCHANGED <<hret, restVars>>

\* Lines 84-97 for a Port event: the slice read, with the PortInfo appended,
\* is stored in the state; then the timestamp is read and the entry is built.
HandleStore(p) ==
    /\ ppc[p] = "append"
    /\ state' = ApplyEvent(
                   [state EXCEPT !.PortState.ForwardedPorts = pload[p].ports],
                   pload[p].event)
    /\ clock' = clock + 1
    /\ pentry' = [pentry EXCEPT ![p] = MakeEntry(pload[p].event, clock + 1)]
    /\ ppc' = [ppc EXCEPT ![p] = "logEvent"]
    /\ pload' = [pload EXCEPT ![p] = NoLoad]
    /\ handled' = Append(handled, pload[p].event)
    /\ UNCHANGED <<eventLog, listeners, mu, pidx, subVars, conn, regAt, failedAt>>
    /\ UNCHANGED <<hret, restVars>>

(***************************************************************************)
(* ev.logEvent (event.go), from EventLogStore.Append: under the lock, add  *)
(* the entry to the end of the log, then deliver it to every registered    *)
(* listener in registration order; a listener that does not take the entry *)
(* within the bounded wait is dropped.                                     *)
(***************************************************************************)
LogEventAppend(p) ==
    /\ ppc[p] = "logEvent"
    /\ mu = "free"
    /\ mu' = p
    /\ eventLog' = Append(eventLog, pentry[p])
    /\ pidx' = [pidx EXCEPT ![p] = 1]
    /\ ppc' = [ppc EXCEPT ![p] = "fanout"]
    /\ UNCHANGED <<state, listeners, clock, pentry, pload, subVars, conn, handled,
                   regAt, failedAt>>
    /\ UNCHANGED <<hret, restVars>>

\* Line 50: the subscriber is blocked in `entry = <-c`, ready to receive.
CanReceive(s) == pc[s] = "recv"

\* The bounded wait of the fan-out expires only on a subscriber that will not
\* come back to line 50: its EventLog call has returned, or its Send is blocked
\* for good.  A subscriber that is merely busy in Send is waited for.
Unresponsive(s) ==
    \/ pc[s] = "done"
    \/ pc[s] = "send" /\ conn[s] = "stalled"

\* The channel is unbuffered (line 46): the send of logEvent and the receive
\* of line 50 are one rendezvous.
Deliver(p) ==
    /\ ppc[p] = "fanout"
    /\ pidx[p] <= Len(listeners)
    /\ LET s == listeners[pidx[p]] IN
         /\ CanReceive(s)
         /\ cur' = [cur EXCEPT ![s] = pentry[p]]
         /\ pc' = [pc EXCEPT ![s] = "send"]
    /\ pidx' = [pidx EXCEPT ![p] = @ + 1]
    /\ UNCHANGED <<state, eventLog, listeners, mu, clock, ppc, pentry, pload,
                   snap, ri, conn, stream, handled, regAt, failedAt>>
    /\ UNCHANGED <<hret, restVars>>

\* A fan-out with no bounded wait: the send on the channel blocks until the
\* subscriber receives, and no listener is ever dropped.
DeliverBlocks(p) ==
    /\ FALSE
    /\ ppc[p] = "fanout"
    /\ UNCHANGED vars

\* A fan-out that gives up on a listener after the bounded wait but leaves
\* it registered.
DeliverTimeoutKeeps(p) ==
    /\ ppc[p] = "fanout"
    /\ pidx[p] <= Len(listeners)
    /\ Unresponsive(listeners[pidx[p]])
    /\ pidx' = [pidx EXCEPT ![p] = @ + 1]
    /\ UNCHANGED <<state, eventLog, listeners, mu, clock, ppc, pentry, pload,
                   subVars, conn, handled, regAt, failedAt>>
    /\ UNCHANGED <<hret, restVars>>

\* The bounded wait on the listener expired: it is dropped, and the fan-out
\* goes on with the listener that took its place.
DeliverTimeout(p) ==
    /\ ppc[p] = "fanout"
    /\ pidx[p] <= Len(listeners)
    /\ Unresponsive(listeners[pidx[p]])
    /\ listeners' = RemoveAt(listeners, pidx[p])
    /\ UNCHANGED <<state, eventLog, mu, clock, prodVars, subVars, conn, handled, regAt, failedAt>>
    /\ UNCHANGED <<hret, restVars>>

\* The fan-out is over: logEvent unlocks and Handle returns
\* `&empty.Empty{}, nil` (line 98).
HandleReturn(p) ==
    /\ ppc[p] = "fanout"
    /\ pidx[p] > Len(listeners)
    /\ mu' = "free"
    /\ ppc' = [ppc EXCEPT ![p] = "idle"]
    /\ pentry' = [pentry EXCEPT ![p] = NoEntry]
    /\ pidx' = [pidx EXCEPT ![p] = 0]
    /\ UNCHANGED <<state, eventLog, listeners, clock, subVars, conn, handled, regAt, failedAt>>
    /\ hret' = [value |-> "Empty", err |-> "nil"]
    /\ UNCHANGED <<pload, restVars>>

(***************************************************************************)
(* EventLog, lines 40-55.                                                  *)
(***************************************************************************)
\* Line 41: `range ev.eventLog` evaluates the slice once, with no lock held.
EventLogBegin(s) ==
    /\ pc[s] = "idle"
    /\ pc' = [pc EXCEPT ![s] = "replay"]
    /\ snap' = [snap EXCEPT ![s] = eventLog]
    /\ ri' = [ri EXCEPT ![s] = 1]
    /\ UNCHANGED <<state, eventLog, listeners, mu, clock, prodVars,
                   cur, conn, stream, handled, regAt, failedAt>>
    /\ UNCHANGED <<hret, restVars>>

\* Lines 42-44: one iteration of the replay loop.  Send on a broken stream
\* returns an error and EventLog returns it; on a stalled stream it blocks.
ReplaySend(s) ==
    /\ pc[s] = "replay"
    /\ ri[s] <= Len(snap[s])
    /\ \/ /\ conn[s] = "open"
          /\ stream' = [stream EXCEPT ![s] = Append(@, snap[s][ri[s]])]
          /\ ri' = [ri EXCEPT ![s] = @ + 1]
          /\ UNCHANGED <<pc, snap, failedAt>>
       \/ /\ conn[s] = "broken"
          /\ pc' = [pc EXCEPT ![s] = "done"]
          /\ snap' = [snap EXCEPT ![s] = <<>>]
          /\ ri' = [ri EXCEPT ![s] = 0]
          /\ failedAt' = [failedAt EXCEPT ![s] = clock]
          /\ UNCHANGED stream
    /\ UNCHANGED <<state, eventLog, listeners, mu, clock, prodVars,
                   cur, conn, handled, regAt>>
    /\ UNCHANGED <<hret, restVars>>

\* ev.RegisterListener (event.go), from EventLogStore.Subscribe: under the
\* lock, add the channel to the end of the listeners.
RegisterListener(ls, c) == Append(ls, c)

\* Lines 46-47, after the replay loop: make the channel and register it.
Register(s) ==
    /\ pc[s] = "replay"
    /\ ri[s] > Len(snap[s])
    /\ mu = "free"
    /\ listeners' = RegisterListener(listeners, s)
    /\ regAt' = [regAt EXCEPT ![s] = Len(eventLog)]
    /\ pc' = [pc EXCEPT ![s] = "recv"]
    /\ snap' = [snap EXCEPT ![s] = <<>>]
    /\ ri' = [ri EXCEPT ![s] = 0]
    /\ UNCHANGED <<state, eventLog, mu, clock, prodVars, cur, conn, stream,
                   handled, failedAt>>
    /\ UNCHANGED <<hret, restVars>>

\* An EventLog whose loop body ends the call after the first successful Send.
LiveSendReturns(s) ==
    /\ pc[s] = "send"
    /\ \/ /\ conn[s] = "open"
          /\ stream' = [stream EXCEPT ![s] = Append(@, cur[s])]
          /\ pc' = [pc EXCEPT ![s] = "done"]
          /\ UNCHANGED failedAt
       \/ /\ conn[s] = "broken"
          /\ pc' = [pc EXCEPT ![s] = "done"]
          /\ failedAt' = [failedAt EXCEPT ![s] = clock]
          /\ UNCHANGED stream
    /\ cur' = [cur EXCEPT ![s] = NoEntry]
    /\ UNCHANGED <<state, eventLog, listeners, mu, clock, prodVars,
                   snap, ri, conn, handled, regAt>>
    /\ UNCHANGED <<hret, restVars>>

\* An EventLog whose loop receives the entry and goes back to the receive
\* without sending it.
LiveSendDropsEntry(s) ==
    /\ pc[s] = "send"
    /\ conn[s] \in {"open", "broken"}
    /\ pc' = [pc EXCEPT ![s] = "recv"]
    /\ cur' = [cur EXCEPT ![s] = NoEntry]
    /\ UNCHANGED <<state, eventLog, listeners, mu, clock, prodVars,
                   snap, ri, conn, stream, handled, regAt, failedAt>>
    /\ UNCHANGED <<hret, restVars>>

\* Lines 51-53: send the received entry; on an error return it, else loop.
LiveSend(s) ==
    /\ pc[s] = "send"
    /\ \/ /\ conn[s] = "open"
          /\ stream' = [stream EXCEPT ![s] = Append(@, cur[s])]
          /\ pc' = [pc EXCEPT ![s] = "recv"]
          /\ UNCHANGED failedAt
       \/ /\ conn[s] = "broken"
          /\ pc' = [pc EXCEPT ![s] = "done"]
          /\ failedAt' = [failedAt EXCEPT ![s] = clock]
          /\ UNCHANGED stream
    /\ cur' = [cur EXCEPT ![s] = NoEntry]
    /\ UNCHANGED <<state, eventLog, listeners, mu, clock, prodVars,
                   snap, ri, conn, handled, regAt>>
    /\ UNCHANGED <<hret, restVars>>

(***************************************************************************)
(* The remote peer of a subscriber: its connection breaks (Send returns an *)
(* error from then on) or it stops reading (Send blocks from then on).     *)
(***************************************************************************)
ConnBreak(s) ==
    /\ pc[s] \in {"replay", "recv", "send"}
    /\ conn[s] = "open"
    /\ conn' = [conn EXCEPT ![s] = "broken"]
    /\ UNCHANGED <<state, eventLog, listeners, mu, clock, prodVars, subVars,
                   handled, regAt, failedAt>>
    /\ UNCHANGED <<hret, restVars>>

ConnStall(s) ==
    /\ pc[s] \in {"replay", "recv", "send"}
    /\ conn[s] = "open"
    /\ conn' = [conn EXCEPT ![s] = "stalled"]
    /\ UNCHANGED <<state, eventLog, listeners, mu, clock, prodVars, subVars,
                   handled, regAt, failedAt>>
    /\ UNCHANGED <<hret, restVars>>

(***************************************************************************)
(* GetState, lines 36-38: returns the pointer ev.state, the proto.State    *)
(* that Handle writes, not a copy of it.                                   *)
(***************************************************************************)
GetState ==
    /\ got = "nil"
    /\ got' = "ev.state"
    /\ gotState' = state
    /\ UNCHANGED <<state, eventLog, listeners, mu, clock, prodVars, hret,
                   subVars, conn, handled, regAt, failedAt, tagVars, srv>>

\* The proto.State the caller of GetState holds: what its pointer points to.
HeldState == state

(***************************************************************************)
(* The git-commit tagger, build/tag/git_commit.go.                         *)
(***************************************************************************)
eventVars == <<state, eventLog, listeners, mu, clock, prodVars, hret, subVars,
                conn, handled, regAt, failedAt, readVars>>

\* The characters the class [^a-zA-Z0-9-._] of line 103 does not match.
IsAllowed(c) == c \in LowerCase \cup UpperCase \cup Digits \cup {"-", ".", "_"}

\* Length of group 1 of `([-.]*)(.*)` on line 106: the longest run of '-'
\* and '.' the string begins with.
LeadingRun(s) ==
    CHOOSE n \in 0..Len(s) :
        /\ \A i \in 1..n : s[i] \in {"-", "."}
        /\ n = Len(s) \/ s[n + 1] \notin {"-", "."}

\* A sanitizeTag that does what the comment of line 105 says: it removes the
\* leading '-' and '.' instead of replacing them.
sanitizeTagRemovesLeading(t) ==
    LET replaced == [i \in 1..Len(t) |-> IF IsAllowed(t[i]) THEN t[i] ELSE "_"]
        stripped == SubSeq(replaced, LeadingRun(replaced) + 1, Len(replaced))
    IN  IF Len(stripped) > MaxTagLen THEN SubSeq(stripped, 1, MaxTagLen) ELSE stripped

\* sanitizeTag, lines 101-119.
sanitizeTag(t) ==
    LET replaced == [i \in 1..Len(t) |-> IF IsAllowed(t[i]) THEN t[i] ELSE "_"]
        run == LeadingRun(replaced)
        stripped == [i \in 1..Len(replaced) |-> IF i <= run THEN "_" ELSE replaced[i]]
    IN  IF Len(stripped) > MaxTagLen THEN SubSeq(stripped, 1, MaxTagLen) ELSE stripped

\* A direct call of sanitizeTag with any string.
SanitizeTagCall(s) ==
    /\ tpc = "idle"
    /\ tag' = s
    /\ sanitized' = sanitizeTag(s)
    /\ tpc' = "returned"
    /\ UNCHANGED <<prefix, ref, changes, name, eventVars, srv>>

\* NewGitCommit(prefix, ...) followed by GenerateFullyQualifiedImageName.
GenerateCall(pfx) ==
    /\ tpc = "idle"
    /\ prefix' = pfx
    /\ tpc' = "makeGitTag"
    /\ UNCHANGED <<tag, sanitized, ref, changes, name, eventVars, srv>>

\* Line 82: makeGitTag returns what git printed, with the surrounding white
\* space trimmed by runGit.
MakeGitTag(r) ==
    /\ tpc = "makeGitTag"
    /\ ref' = r
    /\ tpc' = "status"
    /\ UNCHANGED <<tag, sanitized, prefix, changes, name, eventVars, srv>>

\* Lines 83-85: git failed.
MakeGitTagFails ==
    /\ tpc = "makeGitTag"
    /\ name' = [value |-> <<>>, err |-> "unable to find git commit"]
    /\ tpc' = "returned"
    /\ UNCHANGED <<tag, sanitized, prefix, ref, changes, eventVars, srv>>

\* Lines 87-96: `git status --porcelain` printed ch; the name is formatted
\* from the raw ref when ch is not empty, from sanitizeTag(ref) otherwise.
GitStatus(ch) ==
    /\ tpc = "status"
    /\ changes' = ch
    /\ name' = [value |-> IF Len(ch) > 0
                            THEN ImageName \o <<":">> \o prefix \o ref
                                     \o <<"-", "d", "i", "r", "t", "y">>
                            ELSE ImageName \o <<":">> \o prefix \o sanitizeTag(ref),
                err |-> "nil"]
    /\ tpc' = "returned"
    /\ UNCHANGED <<tag, sanitized, prefix, ref, eventVars, srv>>

\* Lines 88-90: `git status` failed.
GitStatusFails ==
    /\ tpc = "status"
    /\ name' = [value |-> <<>>, err |-> "getting git status"]
    /\ tpc' = "returned"
    /\ UNCHANGED <<tag, sanitized, prefix, ref, changes, eventVars, srv>>

(***************************************************************************)
(* newStatusServer, lines 102-123.                                         *)
(***************************************************************************)
\* A newStatusServer that listens on a default port when none is given.
NewStatusServerDefaultPort(c) ==
    /\ srv[c].pc = "idle"
    /\ srv' = [srv EXCEPT ![c].pc = "returned", ![c].port = "",
                          ![c].listened = TRUE, ![c].lis = "open",
                          ![c].s = "new", ![c].serve = "spawned",
                          ![c].ret = [stop |-> "stop", err |-> "nil"]]
    /\ UNCHANGED <<eventVars, tagVars>>

\* Lines 103-105: port == "".
NewStatusServerNoPort(c) ==
    /\ srv[c].pc = "idle"
    /\ srv' = [srv EXCEPT ![c].pc = "returned", ![c].port = "",
                          ![c].ret = [stop |-> "noop", err |-> "nil"]]
    /\ UNCHANGED <<eventVars, tagVars>>

\* Lines 106-109: net.Listen fails, for a port a listener of this process
\* holds or for a cause outside it.
NewStatusServerBindFails(c, p, cause) ==
    /\ srv[c].pc = "idle"
    /\ p # ""
    /\ srv' = [srv EXCEPT ![c].pc = "returned", ![c].port = p,
                          ![c].listened = TRUE,
                          ![c].ret = [stop |-> "noop",
                                      err |-> "creating listener: " \o cause]]
    /\ UNCHANGED <<eventVars, tagVars>>

\* Lines 106-122: net.Listen succeeds; the server is created, the goroutine
\* that will call s.Serve(l) is started and the stop closure is returned.
NewStatusServerStart(c, p) ==
    /\ srv[c].pc = "idle"
    /\ p # ""
    /\ \A d \in Starts : ~(srv[d].lis = "open" /\ srv[d].port = p)
    /\ srv' = [srv EXCEPT ![c].pc = "returned", ![c].port = p,
                          ![c].listened = TRUE, ![c].lis = "open",
                          ![c].s = "new", ![c].serve = "spawned",
                          ![c].ret = [stop |-> "stop", err |-> "nil"]]
    /\ UNCHANGED <<eventVars, tagVars>>

\* Lines 114-118: the goroutine calls s.Serve(l). On a server already
\* stopped Serve closes l and returns an error, which is logged.
Serve(c) ==
    /\ srv[c].serve = "spawned"
    /\ srv' = IF srv[c].s = "stopped"
                THEN [srv EXCEPT ![c].serve = "exited", ![c].lis = "closed"]
                ELSE [srv EXCEPT ![c].serve = "serving"]
    /\ UNCHANGED <<eventVars, tagVars>>

\* A client connects to a serving server.
ClientConnect(c) ==
    /\ srv[c].serve = "serving"
    /\ srv[c].lis = "open"
    /\ srv[c].clients < MaxClients
    /\ srv' = [srv EXCEPT ![c].clients = @ + 1]
    /\ UNCHANGED <<eventVars, tagVars>>

\* Line 120: s.Stop() closes the listeners the server serves on and makes
\* Serve return.
StopServer(c) ==
    /\ srv[c].ret.stop = "stop"
    /\ srv[c].stop = "idle"
    /\ srv' = IF srv[c].serve = "serving"
                THEN [srv EXCEPT ![c].s = "stopped", ![c].stop = "close",
                                 ![c].serve = "exited", ![c].lis = "closed"]
                ELSE [srv EXCEPT ![c].s = "stopped", ![c].stop = "close"]
    /\ UNCHANGED <<eventVars, tagVars>>

\* Line 121: l.Close(); its error on a listener already closed is dropped.
StopClose(c) ==
    /\ srv[c].stop = "close"
    /\ srv' = [srv EXCEPT ![c].lis = "closed", ![c].stop = "done"]
    /\ UNCHANGED <<eventVars, tagVars>>

\* Lines 104 and 108: the stop function `func() {}`.
StopNoop(c) ==
    /\ srv[c].ret.stop = "noop"
    /\ srv[c].stop = "idle"
    /\ srv' = [srv EXCEPT ![c].stop = "done"]
    /\ UNCHANGED <<eventVars, tagVars>>

(***************************************************************************)
(* Specifications.                                                         *)
(***************************************************************************)
\* The steps of ev.logEvent and the return of Handle.
LogEventStep(p) ==
    \/ LogEventAppend(p)
    \/ Deliver(p)
    \/ DeliverTimeout(p)
    \/ HandleReturn(p)

ProducerStep(p) ==
    \/ HandleStore(p)
    \/ LogEventStep(p)

SubscriberStep(s) ==
    \/ ReplaySend(s)
    \/ Register(s)
    \/ LiveSend(s)

Environment ==
    \/ \E s \in Subscribers : EventLogBegin(s)
    \/ \E s \in Subscribers : ConnBreak(s)
    \/ \E s \in Subscribers : ConnStall(s)

\* Handle calls begun and not yet past their state write.
Loading == Cardinality({ p \in Producers : ppc[p] = "append" })

\* Concurrent producers.
HandleCall ==
    \E p \in Producers, e \in ConcEvents :
        /\ Len(handled) + Loading < MaxEvents
        /\ HandleApply(p, e) \/ HandleLoad(p, e)

Next ==
    \/ HandleCall
    \/ \E p \in Producers : ProducerStep(p)
    \/ \E s \in Subscribers : SubscriberStep(s)
    \/ Environment

Spec == Init /\ [][Next]_vars

\* Every goroutine that can take a step of Handle or EventLog eventually
\* takes it.  Nothing obliges a client to call Handle or EventLog, or a
\* connection to fail.
Fairness ==
    /\ \A p \in Producers : WF_vars(ProducerStep(p))
    /\ \A s \in Subscribers : WF_vars(SubscriberStep(s))

LiveHandleCall ==
    \E p \in Producers, e \in LiveEvents :
        Len(handled) < MaxEvents /\ HandleApply(p, e)

LiveNext ==
    \/ LiveHandleCall
    \/ \E p \in Producers : LogEventStep(p)
    \/ \E s \in Subscribers : SubscriberStep(s)
    \/ Environment

FairSpec == Init /\ [][LiveNext]_vars /\ Fairness

\* Sequential producers: one client calls Handle again and again, each call
\* after the previous one has returned.  One subscriber is attached.
SeqHandleCall ==
    \E e \in SeqEvents :
        /\ Len(handled) < MaxSeqEvents
        /\ \A q \in Producers : ppc[q] = "idle"
        /\ HandleApply("p1", e) \/ HandleLoad("p1", e)

SeqNext ==
    \/ SeqHandleCall
    \/ ProducerStep("p1")
    \/ SubscriberStep("s1")
    \/ EventLogBegin("s1")
    \/ ConnBreak("s1")
    \/ ConnStall("s1")

SeqSpec == Init /\ [][SeqNext]_vars

\* One client that calls Handle with any event and GetState, and no
\* subscriber: the fan-out of ev.logEvent has no listener to deliver to.
WideHandleCall ==
    \E e \in AllEvents :
        /\ Len(handled) < MaxWideEvents
        /\ \A q \in Producers : ppc[q] = "idle"
        /\ HandleApply("p1", e) \/ HandleLoad("p1", e)

WideNext ==
    \/ WideHandleCall
    \/ HandleStore("p1")
    \/ LogEventAppend("p1")
    \/ HandleReturn("p1")
    \/ GetState

WideSpec == Init /\ [][WideNext]_vars

\* One caller of the tagger, which makes one call.
TagNext ==
    \/ \E s \in Strings : SanitizeTagCall(s)
    \/ \E pfx \in Prefixes : GenerateCall(pfx)
    \/ \E r \in GitRefs : MakeGitTag(r)
    \/ MakeGitTagFails
    \/ \E ch \in { <<>>, <<"M", " ", "f">> } : GitStatus(ch)
    \/ GitStatusFails

TagSpec == Init /\ [][TagNext]_vars

\* Calls of newStatusServer, the goroutines they start, the clients and the
\* calls of the stop functions they return.
StatusServerNext ==
    \E c \in Starts :
        \/ NewStatusServerNoPort(c)
        \/ \E p \in Ports, cause \in BindErrors : NewStatusServerBindFails(c, p, cause)
        \/ \E p \in Ports : NewStatusServerStart(c, p)
        \/ Serve(c)
        \/ ClientConnect(c)
        \/ StopServer(c)
        \/ StopClose(c)
        \/ StopNoop(c)

StatusServerSpec == Init /\ [][StatusServerNext]_vars

(***************************************************************************)
(* Properties.                                                             *)
(***************************************************************************)
\* The event of the Handle call that built a log entry: the calls read
\* distinct timestamps, so the timestamp names the call.
EventOf(entry) == handled[entry.Timestamp]

LoggedEvents == [i \in 1..Len(eventLog) |-> EventOf(eventLog[i])]

RECURSIVE FoldEvents(_, _)
FoldEvents(st, es) ==
    IF es = <<>> THEN st ELSE FoldEvents(ApplyEvent(st, Head(es)), Tail(es))

Max(S) == CHOOSE x \in S : \A y \in S : y <= x

Registered(s) == s \in Range(listeners)

\* C1: at every moment the entries sent on a subscriber's stream (history
\* replay followed by live entries) are a prefix of the event log: none is
\* skipped, none is sent twice, none is reordered.
C1_StreamIsPrefixOfLog ==
    \A s \in Subscribers : IsPrefix(stream[s], eventLog)

\* C2: reading the history and registering the listener are one atomic step
\* with respect to appends: while an EventLog call is between its read of
\* ev.eventLog (line 41) and its registration (line 47), no entry is appended.
C2_AttachIsAtomic ==
    [][(\E s \in Subscribers : pc[s] = "replay") => eventLog' = eventLog]_vars

\* C4: in every state a reader can observe, the state is the fold, in log
\* order, of exactly the events whose entries are in the log.
C4_StateIsFoldOfLog ==
    state = FoldEvents(InitState, LoggedEvents)

\* C7: once an EventLog call has returned, the channel it registered is not
\* among the registered listeners.
C7_ReturnedIsUnregistered ==
    \A s \in Subscribers : pc[s] = "done" => ~Registered(s)

BuildCalls(a) ==
    { i \in 1..Len(handled) : handled[i].EventType = Build /\ handled[i].Artifact = a }

DeployCalls == { i \in 1..Len(handled) : handled[i].EventType = Deploy }

IsPortEvent(e) == e.EventType = Port

PortCalls == SelectSeq(handled, IsPortEvent)

\* C10: after a sequential sequence of Handle calls, Artifacts[a] is the
\* status of the last Build event for a (and a is a key only if there is
\* one), DeployState.Status is the status of the last Deploy event, and
\* ForwardedPorts lists the PortInfo of every Port event in arrival order,
\* duplicates included.
C10_StateIsFoldOfEvents ==
    (\A p \in Producers : ppc[p] = "idle") =>
        /\ DOMAIN state.BuildState.Artifacts = { a \in Artifacts : BuildCalls(a) # {} }
        /\ \A a \in DOMAIN state.BuildState.Artifacts :
               state.BuildState.Artifacts[a] = handled[Max(BuildCalls(a))].Status
        /\ DeployCalls # {} =>
               state.DeployState.Status = handled[Max(DeployCalls)].Status
        /\ state.PortState.ForwardedPorts =
               [i \in 1..Len(PortCalls) |-> PortCalls[i].PortInfo]

\* Three calls have returned: two Build events of one artifact with
\* different statuses, and the same port forwarded twice before them.
C10_Witness ==
    /\ \A p \in Producers : ppc[p] = "idle"
    /\ Len(handled) = MaxSeqEvents
    /\ \E i, j \in 1..Len(handled) :
          /\ i < j
          /\ handled[i].EventType = Build /\ handled[j].EventType = Build
          /\ handled[i].Artifact = handled[j].Artifact
          /\ handled[i].Status # handled[j].Status
    /\ \E i \in 1..Len(handled) : handled[i].EventType = Port

Sent(s, k) ==
    /\ k <= Len(eventLog)
    /\ \E i \in 1..Len(stream[s]) : stream[s][i] = eventLog[k]

\* Entry k of the log was appended while subscriber s was registered.
AppendedWhileAttached(s, k) ==
    /\ regAt[s] >= 0
    /\ regAt[s] < k
    /\ k <= Len(eventLog)

StreamFailed(f) == pc[f] = "done" /\ failedAt[f] >= 0

C9_LoopEndsOnClose ==
    \A s \in Subscribers :
        (conn[s] = "broken" /\ pc[s] \in {"replay", "recv", "send"}) ~> (pc[s] = "done")

\* The message of section 4.1 for a kind, a status and an artifact.
ExpectedMessage(k, st, a) ==
    CASE k = Build /\ st = InProgress  -> "Build started for artifact " \o a
      [] k = Build /\ st = Complete    -> "Build completed for artifact " \o a
      [] k = Build /\ st = Failed      -> "Build failed for artifact " \o a
      [] k = Deploy /\ st = InProgress -> "Deploy started"
      [] k = Deploy /\ st = Complete   -> "Deploy complete"
      [] k = Deploy /\ st = Failed     -> "Deploy failed"
      [] OTHER                         -> ""

\* C11: the message of every log entry is the one the table gives for the
\* kind, the status and the artifact of its event; the PortInfo and the
\* error of the event have no part in it.
C11_MessageFromKindStatusArtifact ==
    \A i \in 1..Len(eventLog) :
        LET e == EventOf(eventLog[i])
        IN  eventLog[i].Entry = ExpectedMessage(e.EventType, e.Status, e.Artifact)

\* The log holds the entry of a failed build of a2 whose event carried a
\* port and an error.
C11_Witness ==
    \E i \in 1..Len(eventLog) :
        /\ EventOf(eventLog[i]) = Ev(Build, Failed, "a2", "9090:90", "boom")
        /\ eventLog[i].Entry = "Build failed for artifact a2"

LastHandled == handled[Len(handled)]

\* C12: every Handle call that returns returns an ack and a nil error, and
\* the state write of an event whose kind is none of Build, Deploy, Port
\* leaves the build state, the deploy state and the forwarded ports as they
\* were.
C12_AckAndUnknownKindIgnored ==
    [][/\ hret' # hret => hret' = [value |-> "Empty", err |-> "nil"]
       /\ \A p \in Producers :
             (ppc[p] = "fanout" /\ ppc'[p] = "idle")
                 => hret' = [value |-> "Empty", err |-> "nil"]
       /\ (Len(handled') > Len(handled)
             /\ handled'[Len(handled')].EventType \notin {Build, Deploy, Port})
                 => state' = state]_vars

\* A Handle call with an event of unknown kind has returned.
C12_Witness ==
    /\ handled # <<>>
    /\ LastHandled.EventType = Unknown
    /\ \A p \in Producers : ppc[p] = "idle"
    /\ hret = [value |-> "Empty", err |-> "nil"]
    /\ Len(eventLog) = Len(handled)

\* C13: once GetState has returned, no step changes the value its caller
\* holds, and the step of GetState changes neither the state, the log nor
\* the listeners.
C13_GetStateIsSnapshot ==
    [][/\ got = "ev.state" => HeldState' = gotState
       /\ got' # got => UNCHANGED <<state, eventLog, listeners>>]_vars

\* C14: across every step the log, the set of artifact keys and the list of
\* forwarded ports only grow: the value before the step is a prefix (a
\* subset, for the keys) of the value after it.
C14_OnlyGrow ==
    [][/\ IsPrefix(eventLog, eventLog')
       /\ DOMAIN state.BuildState.Artifacts \subseteq DOMAIN state'.BuildState.Artifacts
       /\ IsPrefix(state.PortState.ForwardedPorts,
                   state'.PortState.ForwardedPorts)]_vars

\* C16: when no Handle call is in progress the log has one entry per
\* completed call, in call order, and the entry of a call carries the kind
\* and the error of its event; no step adds more than one entry.
C16_OneEntryPerCall ==
    [][/\ Len(eventLog') <= Len(eventLog) + 1
       /\ (\A p \in Producers : ppc'[p] = "idle") =>
             /\ Len(eventLog') = Len(handled')
             /\ \A i \in 1..Len(handled') :
                   /\ eventLog'[i].Type = handled'[i].EventType
                   /\ eventLog'[i].Error = handled'[i].Err]_vars

\* MaxSeqEvents calls have completed, one of them with an error.
C16_Witness ==
    /\ \A p \in Producers : ppc[p] = "idle"
    /\ Len(handled) = MaxSeqEvents
    /\ Len(eventLog) = MaxSeqEvents
    /\ \E i \in 1..Len(eventLog) : eventLog[i].Error = "boom"

\* The status recorded for artifact a in st, "" when a has no key.
ArtifactStatus(st, a) ==
    IF a \in DOMAIN st.BuildState.Artifacts THEN st.BuildState.Artifacts[a] ELSE ""

\* C17: the state write of a Build event leaves the deploy state, the
\* forwarded ports and every other artifact as they were; that of a Deploy
\* event leaves the build state and the forwarded ports; that of a Port
\* event leaves the build state and the deploy state.
C17_Frame ==
    [][Len(handled') > Len(handled) =>
         LET e == handled'[Len(handled')]
         IN  /\ e.EventType = Build =>
                   /\ state'.DeployState = state.DeployState
                   /\ state'.PortState = state.PortState
                   /\ \A a \in Artifacts \ {e.Artifact} :
                         ArtifactStatus(state', a) = ArtifactStatus(state, a)
             /\ e.EventType = Deploy =>
                   /\ state'.BuildState = state.BuildState
                   /\ state'.PortState = state.PortState
             /\ e.EventType = Port =>
                   /\ state'.BuildState = state.BuildState
                   /\ state'.DeployState = state.DeployState]_vars

\* A Build, a Deploy and a Port event have been handled, the Build event on
\* a state that already held a deploy status, a port and another artifact.
C17_Witness ==
    /\ Len(handled) = MaxSeqEvents
    /\ LastHandled.EventType = Build
    /\ state.DeployState.Status # NotStarted
    /\ state.PortState.ForwardedPorts # <<>>

\* A docker tag: at most MaxTagLen allowed characters, the first of them
\* neither '-' nor '.'.
IsDockerTag(s) ==
    /\ Len(s) <= MaxTagLen
    /\ \A i \in 1..Len(s) : IsAllowed(s[i])
    /\ s # <<>> => s[1] \notin {"-", "."}

Dirty == <<"-", "d", "i", "r", "t", "y">>

\* The part of the returned name after "<imageName>:<prefix>".
TagPart == SubSeq(name.value, Len(ImageName) + 1 + Len(prefix) + 1, Len(name.value))

\* C19: when GenerateFullyQualifiedImageName succeeds, the tag part of the
\* name is a sanitized ref when the tree is clean, and a sanitized ref
\* followed by "-dirty" when it has changes.
C19_TagPartIsSanitized ==
    (tpc = "returned" /\ name.err = "nil") =>
        IF changes = <<>>
          THEN /\ \A i \in 1..Len(TagPart) : IsAllowed(TagPart[i])
               /\ TagPart # <<>> => TagPart[1] \notin {"-", "."}
          ELSE /\ Len(TagPart) >= Len(Dirty)
               /\ SubSeq(TagPart, Len(TagPart) - Len(Dirty) + 1, Len(TagPart)) = Dirty
               /\ LET body == SubSeq(TagPart, 1, Len(TagPart) - Len(Dirty))
                  IN  /\ \A i \in 1..Len(body) : IsAllowed(body[i])
                      /\ body # <<>> => body[1] \notin {"-", "."}

\* C15: a newStatusServer call with an empty port returns the no-op stop
\* function and a nil error and has not called net.Listen; a call whose bind
\* failed returns the wrapped error and has no listener, no server and no
\* goroutine; once the stop function of a successful call has returned, the
\* server is stopped, the listener is closed and nothing serves on it,
\* whether or not a client ever connected.
C15_StatusServerLifecycle ==
    \A c \in Starts :
        /\ (srv[c].pc = "returned" /\ srv[c].port = "") =>
              /\ srv[c].ret = [stop |-> "noop", err |-> "nil"]
              /\ ~srv[c].listened
              /\ srv[c].lis = "none" /\ srv[c].serve = "none"
        /\ (srv[c].pc = "returned" /\ srv[c].ret.err # "nil") =>
              /\ srv[c].ret.err \in { "creating listener: " \o x : x \in BindErrors }
              /\ srv[c].lis = "none" /\ srv[c].s = "none" /\ srv[c].serve = "none"
        /\ (srv[c].ret.stop = "stop" /\ srv[c].stop = "done") =>
              /\ srv[c].s = "stopped"
              /\ srv[c].lis = "closed"
              /\ srv[c].serve # "serving"

\* One call had an empty port, the other started a server that no client
\* connected to and whose stop function has returned.
C15_Witness ==
    \E c, d \in Starts :
        /\ srv[c].pc = "returned" /\ srv[c].port = "" /\ srv[c].stop = "done"
        /\ srv[d].ret.stop = "stop" /\ srv[d].stop = "done"
        /\ srv[d].clients = 0 /\ srv[d].serve = "exited"

=============================================================================
